---------------------------- MODULE Spec2Model ----------------------------
(***************************************************************************)
(* A model of src/plots.py: the registration-statistics plotting script.   *)
(*                                                                         *)
(* A data frame is a function from column names to columns, a column a     *)
(* sequence of cells; every column of a frame has the same length.         *)
(* A Python object read from a JSON cell is a record [type, items]: a dict *)
(* carries its items as a function from keys to counts; any other value    *)
(* (a missing cell read as NaN, a number, a list) has no .get method.      *)
(* A finished call is a record [status, msg, df]: status "ok", "exit"      *)
(* (sys.exit with a message) or "raise" (an uncaught exception, which ends *)
(* the process with a traceback).                                          *)
(***************************************************************************)
EXTENDS Integers, Sequences, FiniteSets, TLC

VARIABLES pc,            \* position in the script, or in a single call
          file_log,      \* contents of ./data/log.txt
          file_log2024,  \* contents of ./data/log2024.txt
          ef2024,        \* frame read from ./data/log.txt
          ef2023,        \* frame read from ./data/log2024.txt
          fig,           \* what makeplots has drawn
          written,       \* ./out/Fig1.svg has been written
          stderr,        \* the message the process ended with
          args,          \* arguments of a single function call
          ret            \* the result of that call

vars == <<pc, file_log, file_log2024, ef2024, ef2023, fig, written, stderr, args, ret>>

-----------------------------------------------------------------------------
(* Bounds of the model *)

MaxCount == 2
MaxRows == 2
MaxDayRows == 3
MaxTupleLen == 2

-----------------------------------------------------------------------------
(* Generic helpers *)

Range(s) == {s[i] : i \in DOMAIN s}

\* Sequences over S of length 0..n
SeqUpTo(S, n) == UNION {[1..k -> S] : k \in 0..n}

\* All mappings from a subset of keys K to values V (Python dicts)
Dicts(K, V) == UNION {[S -> V] : S \in SUBSET K}

\* Number of rows of a frame with at least one column
NRows(df) == IF DOMAIN df = {} THEN 0 ELSE Len(df[CHOOSE c \in DOMAIN df : TRUE])

\* df[col] = values: add or overwrite one column
SetCol(df, col, values) ==
    [c \in DOMAIN df \cup {col} |-> IF c = col THEN values ELSE df[c]]

\* df.drop(columns = cols)
DropCols(df, cols) == [c \in DOMAIN df \ cols |-> df[c]]

\* df.loc[:, cols]
SelectCols(df, cols) == [c \in cols |-> df[c]]

Ok(df) == [status |-> "ok", msg |-> "", df |-> df]
Exit(msg, df) == [status |-> "exit", msg |-> msg, df |-> df]
Raise(msg, df) == [status |-> "raise", msg |-> msg, df |-> df]

\* pandas' missing value in a numeric column (counts are never negative)
NaN == -1

-----------------------------------------------------------------------------
(* parse_status_dict, parse_sponsor_dict *)

StatusKeys == <<"new", "approved", "partially paid", "paid", "checked in">>
SponsorKeys == <<"normal", "sponsor", "supersponsor">>

\* dict.get(key, default)
get(d, key, default) == IF key \in DOMAIN d THEN d[key] ELSE default

\* parse_status_dict as its annotation tuple[int, int, int, int] reads:
\* without the checked-in count
parse_status_dict_short(status_dict) ==
    LET new       == get(status_dict, "new", 0)
        approved  == get(status_dict, "approved", 0)
        partially == get(status_dict, "partially paid", 0)
        paid      == get(status_dict, "paid", 0)
    IN  <<new, approved, partially, paid>>

\* parse_status_dict with paid and partially paid in each other's place
parse_status_dict_swapped(status_dict) ==
    LET new       == get(status_dict, "new", 0)
        approved  == get(status_dict, "approved", 0)
        partially == get(status_dict, "partially paid", 0)
        paid      == get(status_dict, "paid", 0)
        checkedin == get(status_dict, "checked in", 0)
    IN  <<new, approved, paid, partially, checkedin>>

parse_status_dict(status_dict) ==
    LET new       == get(status_dict, "new", 0)
        approved  == get(status_dict, "approved", 0)
        partially == get(status_dict, "partially paid", 0)
        paid      == get(status_dict, "paid", 0)
        checkedin == get(status_dict, "checked in", 0)
    IN  <<new, approved, partially, paid, checkedin>>

parse_sponsor_dict(sponsor_dict) ==
    LET normal       == get(sponsor_dict, "normal", 0)
        sponsor      == get(sponsor_dict, "sponsor", 0)
        supersponsor == get(sponsor_dict, "supersponsor", 0)
    IN  <<normal, sponsor, supersponsor>>

\* A Python object: a dict with its items, or a value without .get
PyDict(items) == [type |-> "dict", items |-> items]
PyFloat == [type |-> "float", items |-> <<>>]

\* Series.apply(f) over a column of Python objects: f calls .get on each
\* cell, which raises AttributeError on the first cell that is no dict
\* An apply that skips the cells that are no dict
ApplyNeverRaises(col) == FALSE
ApplyRaises(col) == \E i \in DOMAIN col : col[i].type # "dict"
ApplyStatus(col) == [i \in DOMAIN col |-> parse_status_dict(col[i].items)]
ApplySponsor(col) == [i \in DOMAIN col |-> parse_sponsor_dict(col[i].items)]

-----------------------------------------------------------------------------
(* split_tuplecol *)

\* The loop of lines 48-49 from its i-th iteration on.  Once an earlier
\* iteration has overwritten incol itself (incol among the outcols), its
\* cells are numbers and x[i] raises TypeError on the first row.
RECURSIVE split_loop(_, _, _, _)
split_loop(df, incol, outcols, i) ==
    IF i > Len(outcols) THEN Ok(df)
    ELSE IF (\E j \in 1..(i-1) : outcols[j] = incol) /\ NRows(df) > 0
         THEN Raise("TypeError", df)
         ELSE split_loop(SetCol(df, outcols[i],
                                [r \in DOMAIN df[incol] |-> df[incol][r][i]]),
                         incol, outcols, i + 1)

\* split_tuplecol without the drop of line 51
split_tuplecol_keep(df, incol, outcols) ==
    IF ~ \A r \in DOMAIN df[incol] : Len(df[incol][r]) = Len(outcols)
    THEN Exit("split.tuplecol: Malformed entry in column", df)
    ELSE split_loop(df, incol, outcols, 1)

split_tuplecol(df, incol, outcols) ==
    IF ~ \A r \in DOMAIN df[incol] : Len(df[incol][r]) = Len(outcols)
    THEN Exit("split.tuplecol: Malformed entry in column", df)
    ELSE LET r == split_loop(df, incol, outcols, 1)
         IN  IF r.status = "ok" THEN Ok(DropCols(r.df, {incol})) ELSE r

-----------------------------------------------------------------------------
(* Timestamps and dates *)

\* A timestamp is [year, month, day, sec], sec the second of the day.
\* Days since 1970-01-01 of a proleptic Gregorian date.
DaysFromCivil(y, m, d) ==
    LET yy  == IF m <= 2 THEN y - 1 ELSE y
        era == yy \div 400
        yoe == yy - era * 400
        mp  == IF m > 2 THEN m - 3 ELSE m + 9
        doy == (153 * mp + 2) \div 5 + d - 1
        doe == yoe * 365 + yoe \div 4 - yoe \div 100 + doy
    IN  era * 146097 + doe - 719468

\* Series.astype(int) of a datetime column, in seconds (the code's value is
\* this times 10^9; every timestamp of the model is on a whole second)
EpochSeconds(ts) == DaysFromCivil(ts.year, ts.month, ts.day) * 86400 + ts.sec

Pow10(k) == IF k = 0 THEN 1 ELSE IF k = 1 THEN 10 ELSE IF k = 2 THEN 100 ELSE 1000

\* n as `width` decimal digits, zero padded, as character codes
Digits(n, width) == [i \in 1..width |-> 48 + ((n \div Pow10(width - i)) % 10)]

Slash == <<47>>

\* dt.strftime('%m/%d/%Y')
strftime(ts) ==
    Digits(ts.month, 2) \o Slash \o Digits(ts.day, 2) \o Slash \o Digits(ts.year, 4)

\* Python's order on strings: lexicographic on the code points
RECURSIVE StrLess(_, _)
StrLess(a, b) ==
    IF b = <<>> THEN FALSE
    ELSE IF a = <<>> THEN TRUE
    ELSE IF Head(a) # Head(b) THEN Head(a) < Head(b)
    ELSE StrLess(Tail(a), Tail(b))

\* The elements of a finite set of strings in ascending order
RECURSIVE SortedKeys(_)
SortedKeys(S) ==
    IF S = {} THEN <<>>
    ELSE LET m == CHOOSE x \in S : \A y \in S \ {x} : StrLess(x, y)
         IN  <<m>> \o SortedKeys(S \ {m})

-----------------------------------------------------------------------------
(* daywise *)

\* GroupBy.last of one column: the last entry of the group that is not
\* missing, and missing when every entry of the group is
\* GroupBy.first
GroupFirst(col, rows) ==
    LET valid == {i \in rows : col[i] # NaN}
    IN  IF valid = {} THEN NaN
        ELSE col[CHOOSE i \in valid : \A j \in valid : i <= j]

GroupLast(col, rows) ==
    LET valid == {i \in rows : col[i] # NaN}
    IN  IF valid = {} THEN NaN
        ELSE col[CHOOSE i \in valid : \A j \in valid : j <= i]

daywise(df, offset) ==
    LET date == [i \in DOMAIN df["CurrentDateTimeUtc"] |->
                    strftime(df["CurrentDateTimeUtc"][i])]
        keys == SortedKeys(Range(date))
        rows(k) == {i \in DOMAIN date : date[i] = k}
    IN  [Date       |-> keys,
         TotalCount |-> [g \in DOMAIN keys |-> GroupLast(df["TotalCount"], rows(keys[g]))],
         idx        |-> [g \in DOMAIN keys |-> (g - 1) - offset]]

-----------------------------------------------------------------------------
(* read_parse_input *)

InputCols == {"CurrentDateTimeUtc", "TotalCount", "Status", "Sponsor"}
status_cols == <<"new", "approved", "partial", "paid", "checkedin">>
sponsor_cols == <<"normal", "sponsor", "supersponsor">>

\* pd.read_json(filename, lines = True) of a parseable file: one row per
\* line, one column per key; a file without lines gives a frame without
\* columns.  The timestamps of the model are parsed ones: pd.to_datetime
\* (line 65) keeps them.
read_json(file) ==
    IF file.rows = <<>> THEN <<>>
    ELSE [c \in InputCols |-> [i \in DOMAIN file.rows |-> file.rows[i][c]]]

read_parse_input(file) ==
    IF ~ file.parseable
    THEN Exit("read_parse_input: Error while loading source data", <<>>)
    ELSE LET df0 == read_json(file)
         IN  IF ~ (InputCols \subseteq DOMAIN df0) THEN Raise("KeyError", df0)
             ELSE LET df1 == SelectCols(df0, InputCols)
                  IN  IF ApplyRaises(df1["Status"]) \/ ApplyRaises(df1["Sponsor"])
                      THEN Raise("AttributeError", df1)
                      ELSE LET df2 == SetCol(df1, "Status", ApplyStatus(df1["Status"]))
                               df3 == SetCol(df2, "Sponsor", ApplySponsor(df2["Sponsor"]))
                               r1  == split_tuplecol(df3, "Status", status_cols)
                           IN  IF r1.status # "ok" THEN r1
                               ELSE split_tuplecol(r1.df, "Sponsor", sponsor_cols)

-----------------------------------------------------------------------------
(* Floating-point values of the check-in rate *)

\* A float is not-a-number, an infinity, or the quotient num/den, den > 0
FNaN == [kind |-> "nan", num |-> 0, den |-> 1]
FInf == [kind |-> "inf", num |-> 1, den |-> 1]
FNegInf == [kind |-> "-inf", num |-> -1, den |-> 1]
FNum(n, d) == IF d < 0 THEN [kind |-> "num", num |-> -n, den |-> -d]
              ELSE [kind |-> "num", num |-> n, den |-> d]

\* Series / Series and Series / scalar on float64: a zero divisor gives an
\* infinity, or not-a-number for 0/0; nothing is raised.  The operands here
\* are quotients or not-a-number, never an infinity.
FDiv(a, b) ==
    IF a.kind # "num" \/ b.kind # "num" THEN FNaN
    ELSE IF b.num = 0
         THEN (IF a.num = 0 THEN FNaN ELSE IF a.num > 0 THEN FInf ELSE FNegInf)
         ELSE FNum(a.num * b.den, a.den * b.num)

\* Series.rolling(window=2).apply(lambda x: x.iloc[1] - x.iloc[0]): the
\* first row has no full window
rolling_delta(col) ==
    [i \in DOMAIN col |-> IF i < 2 THEN FNaN ELSE FNum(col[i] - col[i-1], 1)]

\* lines 364-366 without the division by 60
checkinrate_per_second(df) ==
    LET epoch          == [i \in DOMAIN df["CurrentDateTimeUtc"] |->
                              EpochSeconds(df["CurrentDateTimeUtc"][i])]
        delta_checkins == rolling_delta(df["checkedin"])
        delta_min      == rolling_delta(epoch)
    IN  [i \in DOMAIN delta_checkins |-> FDiv(delta_checkins[i], delta_min[i])]

\* lines 364-366
checkinrate(df) ==
    LET epoch          == [i \in DOMAIN df["CurrentDateTimeUtc"] |->
                              EpochSeconds(df["CurrentDateTimeUtc"][i])]
        delta_checkins == rolling_delta(df["checkedin"])
        delta_min      == [i \in DOMAIN epoch |->
                              FDiv(rolling_delta(epoch)[i], FNum(60, 1))]
    IN  [i \in DOMAIN delta_checkins |-> FDiv(delta_checkins[i], delta_min[i])]

-----------------------------------------------------------------------------
(* makeplots *)

\* line 123 without its last term
totals_no_checkedin(df) ==
    [i \in DOMAIN df["new"] |->
        df["new"][i] + df["approved"][i] + df["partial"][i] + df["paid"][i]]

\* line 123
totals(df) ==
    [i \in DOMAIN df["new"] |->
        df["new"][i] + df["approved"][i] + df["partial"][i] + df["paid"][i]
        + df["checkedin"][i]]

\* line 141: the series labelled "Paid (incl. partial)"
paid_series(df) ==
    [i \in DOMAIN df["paid"] |-> df["paid"][i] + df["partial"][i] + df["checkedin"][i]]

\* tolist()[-1] and iloc[-1] of a column that has a row
Last(col) == col[Len(col)]

NoFig == [drawn |-> FALSE]

\* Everything makeplots computes from its two frames; the last step of a
\* call that raises nothing is plt.savefig
makeplots(df, df_last) ==
    IF NRows(df) = 0 THEN Raise("IndexError", NoFig)
    ELSE LET df_t       == SetCol(df, "totals", totals(df))
             new        == Last(df_t["new"])
             approved   == Last(df_t["approved"])
             partial    == Last(df_t["partial"])
             paid       == Last(df_t["paid"])
             checkedin  == Last(df_t["checkedin"])
             nb_normal  == Last(df_t["normal"])
             nb_spons   == Last(df_t["sponsor"])
             nb_super   == Last(df_t["supersponsor"])
         IN  Ok([drawn            |-> TRUE,
                 totals           |-> df_t["totals"],
                 line_checkedin   |-> df_t["checkedin"],
                 line_total       |-> df_t["totals"],
                 line_paid        |-> paid_series(df_t),
                 bar_normal       |-> nb_normal,
                 bar_sponsor      |-> nb_spons,
                 bar_supersponsor |-> nb_super,
                 df_daywise       |-> daywise(df_t, 33),
                 df_last_daywise  |-> daywise(df_last, 3),
                 checkinrate      |-> checkinrate(df_t),
                 annot_last       |-> Last(df_t["CurrentDateTimeUtc"]),
                 annot_total      |-> new + approved + partial + paid + checkedin,
                 annot_paid       |-> partial + paid,
                 annot_checkedin  |-> checkedin,
                 annot_sponsors   |-> nb_normal + nb_spons + nb_super])

-----------------------------------------------------------------------------
(* Inputs *)

Ts(y, m, d, sec) == [year |-> y, month |-> m, day |-> d, sec |-> sec]

Row(ts, tc, st, sp) ==
    [CurrentDateTimeUtc |-> ts, TotalCount |-> tc, Status |-> st, Sponsor |-> sp]

File(rows) == [parseable |-> TRUE, rows |-> rows]
Unparseable == [parseable |-> FALSE, rows |-> <<>>]

\* Status and Sponsor names a log may carry: the known ones and one more
AllStatusKeys == Range(StatusKeys) \cup {"cancelled"}
AllSponsorKeys == Range(SponsorKeys) \cup {"ultrasponsor"}

\* The count each status carries in the logs of the script runs
SampleCount ==
    ("new" :> 1) @@ ("approved" :> 2) @@ ("partially paid" :> 4) @@ ("paid" :> 8)
    @@ ("checked in" :> 16) @@ ("cancelled" :> 32)

StatusVals == {PyFloat} \cup {PyDict([k \in S |-> SampleCount[k]]) : S \in SUBSET AllStatusKeys}

FullSponsor == PyDict(("normal" :> 3) @@ ("sponsor" :> 2) @@ ("supersponsor" :> 1))
OddSponsor == PyDict(("normal" :> 3) @@ ("sponsor" :> 2) @@ ("ultrasponsor" :> 1))
SponsorVals == {PyFloat, FullSponsor, OddSponsor}

T0 == Ts(2025, 9, 2, 0)
T1 == Ts(2025, 9, 2, 60)

\* The last line of ./data/log.txt, and the lines before it
LastRows == {Row(T1, 1, st, sp) : st \in StatusVals, sp \in SponsorVals}
EarlierRows ==
    {Row(ts, 1, st, FullSponsor) :
        ts \in {T0, T1},
        st \in {PyFloat,
                PyDict([k \in Range(StatusKeys) |-> SampleCount[k]]),
                PyDict(("paid" :> 5) @@ ("cancelled" :> 7))}}

Logs ==
    {Unparseable, File(<<>>)}
    \cup {File(pre \o <<last>>) : pre \in SeqUpTo(EarlierRows, MaxRows - 1), last \in LastRows}

Logs2024 ==
    {Unparseable, File(<<>>),
     File(<<Row(Ts(2024, 1, 20, 0), 1, PyDict(<<>>), FullSponsor)>>),
     File(<<Row(Ts(2024, 1, 20, 0), 1, PyFloat, FullSponsor)>>)}

-----------------------------------------------------------------------------
(* The script: lines 419-426 *)

Idle == <<>>

Init ==
    /\ pc = "main_421"
    /\ file_log \in Logs
    /\ file_log2024 \in Logs2024
    /\ ef2024 = <<>>
    /\ ef2023 = <<>>
    /\ fig = NoFig
    /\ written = FALSE
    /\ stderr = ""
    /\ args = Idle
    /\ ret = Idle

\* sys.exit and an uncaught exception end the process
Terminate(r) ==
    /\ pc' = r.status
    /\ stderr' = r.msg

\* ef2024 = read_parse_input()
Main421 ==
    /\ pc = "main_421"
    /\ LET r == read_parse_input(file_log)
       IN  IF r.status = "ok"
           THEN /\ ef2024' = r.df
                /\ pc' = "main_424"
                /\ UNCHANGED stderr
           ELSE /\ Terminate(r)
                /\ UNCHANGED ef2024
    /\ UNCHANGED <<file_log, file_log2024, ef2023, fig, written, args, ret>>

\* ef2023 = read_parse_input("./data/log2024.txt")
Main424 ==
    /\ pc = "main_424"
    /\ LET r == read_parse_input(file_log2024)
       IN  IF r.status = "ok"
           THEN /\ ef2023' = r.df
                /\ pc' = "main_426"
                /\ UNCHANGED stderr
           ELSE /\ Terminate(r)
                /\ UNCHANGED ef2023
    /\ UNCHANGED <<file_log, file_log2024, ef2024, fig, written, args, ret>>

\* makeplots called one line early, on this year's frame alone
Main426_early ==
    /\ pc \in {"main_424", "main_426"}
    /\ LET r == makeplots(ef2024, ef2024)
       IN  /\ fig' = r.df
           /\ written' = TRUE
           /\ pc' = "done"
           /\ UNCHANGED stderr
    /\ UNCHANGED <<file_log, file_log2024, ef2024, ef2023, args, ret>>

\* makeplots(ef2024, ef2023), which ends with plt.savefig
Main426 ==
    /\ pc = "main_426"
    /\ LET r == makeplots(ef2024, ef2023)
       IN  IF r.status = "ok"
           THEN /\ fig' = r.df
                /\ written' = TRUE
                /\ pc' = "done"
                /\ UNCHANGED stderr
           ELSE /\ Terminate(r)
                /\ UNCHANGED <<fig, written>>
    /\ UNCHANGED <<file_log, file_log2024, ef2024, ef2023, args, ret>>

Next == Main421 \/ Main424 \/ Main426

Spec == Init /\ [][Next]_vars

-----------------------------------------------------------------------------
(* Properties of a run of the script *)

ReadMsg == "read_parse_input: Error while loading source data"
SplitMsg == "split.tuplecol: Malformed entry in column"

RECURSIVE SumItems(_)
\* The sum of the counts of a mapping
SumItems(d) ==
    IF DOMAIN d = {} THEN 0
    ELSE LET k == CHOOSE x \in DOMAIN d : TRUE
         IN  d[k] + SumItems([x \in DOMAIN d \ {k} |-> d[x]])

Produced(df) == DOMAIN df # {}

KnownKeysOnly(v, keys) == v.type = "dict" /\ DOMAIN v.items \subseteq Range(keys)
Malformed(v, keys) == v.type # "dict" \/ DOMAIN v.items # Range(keys)
NonMapping(row) == row.Status.type # "dict" \/ row.Sponsor.type # "dict"

\* C3: once the figure is drawn, the totals column holds, for every row
\* whose Status mapping carries known status names only, the sum of the
\* counts of that mapping, and so does the total of the upper-left
\* annotation for the last row.
C3_TotalIsSumOfStatus ==
    pc = "done" =>
        /\ \A i \in DOMAIN file_log.rows :
              KnownKeysOnly(file_log.rows[i].Status, StatusKeys)
              => fig.totals[i] = SumItems(file_log.rows[i].Status.items)
        /\ KnownKeysOnly(Last(file_log.rows).Status, StatusKeys)
              => fig.annot_total = SumItems(Last(file_log.rows).Status.items)

C3_Witness ==
    /\ pc = "done"
    /\ Len(file_log.rows) = 2
    /\ \A i \in DOMAIN file_log.rows : KnownKeysOnly(file_log.rows[i].Status, StatusKeys)
    /\ DOMAIN file_log.rows[2].Status.items = {"new", "paid", "checked in"}
    /\ fig.totals = <<31, 25>>
    /\ fig.annot_total = 25

\* C4 as stated: a row whose Status or Sponsor is no mapping, or a mapping
\* with a key outside the known names, or a mapping that misses a known name,
\* keeps read_parse_input from producing a frame.
C4_MalformedTerminates ==
    (/\ file_log.parseable
     /\ \E i \in DOMAIN file_log.rows :
           \/ Malformed(file_log.rows[i].Status, StatusKeys)
           \/ Malformed(file_log.rows[i].Sponsor, SponsorKeys))
    => ~ Produced(ef2024)

\* C4 as amended: of a parseable log with a line, a Status or Sponsor that
\* is no mapping ends the process at the first read with an uncaught
\* AttributeError, and nothing is written.  A log of mappings is read into a
\* frame whatever their keys are: every count column holds the mapping's
\* value for its name, 0 where the name is missing, and the counts of other
\* names are in no column.
C4_OnlyNonMappingTerminates ==
    (file_log.parseable /\ file_log.rows # <<>> /\ pc # "main_421") =>
        IF \E i \in DOMAIN file_log.rows : NonMapping(file_log.rows[i])
        THEN /\ ~ Produced(ef2024)
             /\ pc = "raise"
             /\ stderr = "AttributeError"
             /\ ~ written
        ELSE /\ DOMAIN ef2024 = {"CurrentDateTimeUtc", "TotalCount"}
                                \cup Range(status_cols) \cup Range(sponsor_cols)
             /\ \A i \in DOMAIN file_log.rows :
                   /\ \A k \in DOMAIN StatusKeys :
                         ef2024[status_cols[k]][i]
                         = get(file_log.rows[i].Status.items, StatusKeys[k], 0)
                   /\ \A k \in DOMAIN SponsorKeys :
                         ef2024[sponsor_cols[k]][i]
                         = get(file_log.rows[i].Sponsor.items, SponsorKeys[k], 0)

C4_Witness ==
    /\ pc = "main_424"
    /\ Produced(ef2024)
    /\ Len(file_log.rows) = 2
    /\ DOMAIN file_log.rows[1].Status.items = {"paid", "cancelled"}
    /\ DOMAIN file_log.rows[2].Status.items = {"new", "cancelled"}
    /\ file_log.rows[2].Sponsor = OddSponsor
    /\ ef2024["paid"] = <<5, 0>>
    /\ ef2024["new"] = <<0, 1>>
    /\ ef2024["supersponsor"] = <<1, 0>>

\* C5: the figure is written by one step only, the last one of the run,
\* taken after both logs have been read into frames; a log that cannot be
\* parsed ends the process with read_parse_input's message at the read
\* that meets it, and the figure is never written.
C5_WriteOnlyAfterBothReads ==
    /\ [](written => /\ pc = "done"
                     /\ file_log.parseable /\ file_log2024.parseable
                     /\ Produced(ef2024) /\ Produced(ef2023))
    /\ [](~ file_log.parseable /\ pc # "main_421"
             => pc = "exit" /\ stderr = ReadMsg /\ ~ written)
    /\ [](~ file_log2024.parseable /\ pc \notin {"main_421", "main_424"}
             => /\ pc \in {"exit", "raise"}
                /\ ~ written
                /\ Produced(ef2024) => pc = "exit" /\ stderr = ReadMsg)
    /\ [][written' # written => ~ written /\ pc = "main_426" /\ pc' = "done"]_vars
    /\ [][pc \notin {"done", "exit", "raise"}]_vars

C5_Witness ==
    /\ pc = "exit"
    /\ stderr = ReadMsg
    /\ Produced(ef2024)
    /\ ~ file_log2024.parseable
    /\ ~ written

C10_AnnotationMatchesSeries ==
    pc = "done" =>
        /\ fig.annot_total = Last(fig.line_total)
        /\ fig.annot_paid = Last(fig.line_paid)
        /\ fig.annot_checkedin = Last(fig.line_checkedin)

-----------------------------------------------------------------------------
(* Single calls of the functions, on arguments drawn from bounded sets *)

NoScript ==
    /\ file_log = Unparseable
    /\ file_log2024 = Unparseable
    /\ ef2024 = <<>>
    /\ ef2023 = <<>>
    /\ fig = NoFig
    /\ written = FALSE
    /\ stderr = ""

Return(value) ==
    /\ ret' = value
    /\ pc' = "return"
    /\ UNCHANGED <<file_log, file_log2024, ef2024, ef2023, fig, written, stderr, args>>

(* parse_status_dict and parse_sponsor_dict on every mapping *)

InitParse ==
    /\ pc = "call"
    /\ args \in {[fn |-> "parse_status_dict", d |-> d] :
                    d \in Dicts(AllStatusKeys, 0..MaxCount)}
                \cup {[fn |-> "parse_sponsor_dict", d |-> d] :
                    d \in Dicts(AllSponsorKeys, 0..MaxCount)}
    /\ ret = Idle
    /\ NoScript

CallParseStatus ==
    /\ pc = "call"
    /\ args.fn = "parse_status_dict"
    /\ Return(parse_status_dict(args.d))

CallParseSponsor ==
    /\ pc = "call"
    /\ args.fn = "parse_sponsor_dict"
    /\ Return(parse_sponsor_dict(args.d))

NextParse == CallParseStatus \/ CallParseSponsor

SpecParse == InitParse /\ [][NextParse]_vars

TupleCell(r, n) == [k \in 1..n |-> 10 * r + k]

SplitFrames ==
    {[Status     |-> [r \in DOMAIN lens |-> TupleCell(r, lens[r])],
      TotalCount |-> [r \in DOMAIN lens |-> 100 + r]] :
        lens \in SeqUpTo(0..MaxTupleLen, MaxRows)}

InitSplit ==
    /\ pc = "call"
    /\ args \in {[fn |-> "split_tuplecol", df |-> df, incol |-> "Status", outcols |-> oc] :
                    df \in SplitFrames,
                    oc \in SeqUpTo({"a", "b", "Status", "TotalCount"}, MaxTupleLen)}
    /\ ret = Idle
    /\ NoScript

CallSplit ==
    /\ pc = "call"
    /\ args.fn = "split_tuplecol"
    /\ Return(split_tuplecol(args.df, args.incol, args.outcols))

NextSplit == CallSplit

SpecSplit == InitSplit /\ [][NextSplit]_vars

AllOfLength(df, incol, n) == \A r \in DOMAIN df[incol] : Len(df[incol][r]) = n

\* The effect of a finished call: the split when every entry has as many
\* elements as there are output columns, and otherwise the exit with the
\* frame as it was
SplitEffect(df, incol, outcols, r) ==
    IF AllOfLength(df, incol, Len(outcols))
    THEN /\ r.status = "ok"
         /\ \A i \in DOMAIN outcols :
               /\ outcols[i] \in DOMAIN r.df
               /\ DOMAIN r.df[outcols[i]] = DOMAIN df[incol]
               /\ \A row \in DOMAIN df[incol] : r.df[outcols[i]][row] = df[incol][row][i]
         /\ incol \notin DOMAIN r.df
         /\ NRows(r.df) = NRows(df) \/ DOMAIN r.df = {}
         /\ \A c \in DOMAIN df \ ({incol} \cup Range(outcols)) :
               c \in DOMAIN r.df /\ r.df[c] = df[c]
         /\ DOMAIN r.df = (DOMAIN df \cup Range(outcols)) \ {incol}
    ELSE /\ r.status = "exit"
         /\ r.msg = SplitMsg
         /\ r.df = df

\* C7 as stated: for every frame, input column and list of output columns,
\* a call where every entry of the input column has as many elements as
\* there are output columns returns the frame with one column per output
\* name holding that element of every row, without the input column, and
\* with its other columns and its rows as they were; any other call exits
\* with the frame untouched.
C7_SplitEffect ==
    pc = "return" => SplitEffect(args.df, args.incol, args.outcols, ret)

\* C7 as amended: the same effect, for output columns that are pairwise
\* different and are not the input column.
C7_SplitEffectNewColumns ==
    (/\ pc = "return"
     /\ args.incol \notin Range(args.outcols)
     /\ Cardinality(Range(args.outcols)) = Len(args.outcols))
    => SplitEffect(args.df, args.incol, args.outcols, ret)

C7_Witness ==
    /\ pc = "return"
    /\ args.outcols = <<"a", "b">>
    /\ args.df["Status"] = <<TupleCell(1, 2), TupleCell(2, 2)>>
    /\ ret.status = "ok"
    /\ ret.df = [a |-> <<11, 21>>, b |-> <<12, 22>>, TotalCount |-> <<101, 102>>]

C7_WitnessAbort ==
    /\ pc = "return"
    /\ args.outcols = <<"a", "b">>
    /\ args.df["Status"] = <<TupleCell(1, 2), TupleCell(2, 1)>>
    /\ ret.status = "exit"

(* daywise on frames of timestamps and total counts *)

\* Three dates: two next to each other across a year boundary, and one
\* after a day without a snapshot; and a second time of day
DayTimestamps ==
    {Ts(2024, 12, 31, 0), Ts(2025, 1, 1, 0), Ts(2025, 1, 1, 3600), Ts(2025, 1, 3, 0)}

DayFrames ==
    {[CurrentDateTimeUtc |-> [r \in DOMAIN rows |-> rows[r][1]],
      TotalCount         |-> [r \in DOMAIN rows |-> rows[r][2]]] :
        rows \in SeqUpTo(DayTimestamps \X ({NaN} \cup 1..MaxCount), MaxDayRows)}

InitDaywise ==
    /\ pc = "call"
    /\ args \in {[fn |-> "daywise", df |-> df, offset |-> o] :
                    df \in DayFrames, o \in {3, 33}}
    /\ ret = Idle
    /\ NoScript

CallDaywise ==
    /\ pc = "call"
    /\ args.fn = "daywise"
    /\ Return(daywise(args.df, args.offset))

NextDaywise == CallDaywise

SpecDaywise == InitDaywise /\ [][NextDaywise]_vars

DateOf(ts) == <<ts.year, ts.month, ts.day>>
DatesIn(df) == {DateOf(df["CurrentDateTimeUtc"][i]) : i \in DOMAIN df["CurrentDateTimeUtc"]}
RowsOn(df, date) ==
    {i \in DOMAIN df["CurrentDateTimeUtc"] : DateOf(df["CurrentDateTimeUtc"][i]) = date}
MaxOf(S) == CHOOSE i \in S : \A j \in S : j <= i

\* The date a 'MM/DD/YYYY' string names
DateOfString(str) ==
    <<(str[7] - 48) * 1000 + (str[8] - 48) * 100 + (str[9] - 48) * 10 + (str[10] - 48),
      (str[1] - 48) * 10 + (str[2] - 48),
      (str[4] - 48) * 10 + (str[5] - 48)>>

DayNumber(date) == DaysFromCivil(date[1], date[2], date[3])

\* One row per date of the frame
OneRowPerDate(df, out) ==
    /\ Len(out.Date) = Cardinality(DatesIn(df))
    /\ DOMAIN out.TotalCount = DOMAIN out.Date
    /\ DOMAIN out.idx = DOMAIN out.Date
    /\ \A date \in DatesIn(df) :
          Cardinality({g \in DOMAIN out.Date : DateOfString(out.Date[g]) = date}) = 1

\* C1 as stated: one row per date of the frame, with the TotalCount of the
\* last row of the frame on that date.
C1_LastObservationOfDate ==
    pc = "return" =>
        /\ OneRowPerDate(args.df, ret)
        /\ \A g \in DOMAIN ret.Date :
              ret.TotalCount[g]
              = args.df["TotalCount"][MaxOf(RowsOn(args.df, DateOfString(ret.Date[g])))]

\* C1 as amended: one row per date of the frame, with the TotalCount of the
\* last row on that date that has one (a missing TotalCount is skipped), and
\* a missing TotalCount when no row of that date has one.
C1_LastPresentCountOfDate ==
    pc = "return" =>
        /\ OneRowPerDate(args.df, ret)
        /\ \A g \in DOMAIN ret.Date :
              LET rows    == RowsOn(args.df, DateOfString(ret.Date[g]))
                  present == {i \in rows : args.df["TotalCount"][i] # NaN}
              IN  ret.TotalCount[g]
                  = IF present = {} THEN NaN ELSE args.df["TotalCount"][MaxOf(present)]

C1_Witness ==
    /\ pc = "return"
    /\ args.df["CurrentDateTimeUtc"]
       = <<Ts(2025, 1, 1, 0), Ts(2024, 12, 31, 0), Ts(2025, 1, 1, 3600)>>
    /\ args.df["TotalCount"] = <<1, 2, NaN>>
    /\ Len(ret.Date) = 2
    /\ ret.TotalCount = <<1, 2>>

\* C2: the rows are in the order of their dates, and the idx of two rows
\* differ by the number of days between their dates.
C2_IdxIsDayOffset ==
    pc = "return" =>
        \A g, h \in DOMAIN ret.Date :
            g < h =>
                /\ DayNumber(DateOfString(ret.Date[g])) < DayNumber(DateOfString(ret.Date[h]))
                /\ ret.idx[h] - ret.idx[g]
                   = DayNumber(DateOfString(ret.Date[h])) - DayNumber(DateOfString(ret.Date[g]))

(* The check-in rate on frames of timestamps and checked-in counts *)

RateTimestamps ==
    {Ts(2025, 9, 2, 0), Ts(2025, 9, 2, 60), Ts(2025, 9, 2, 90), Ts(2025, 9, 3, 0)}

RateFrames ==
    {[CurrentDateTimeUtc |-> [r \in DOMAIN rows |-> rows[r][1]],
      checkedin          |-> [r \in DOMAIN rows |-> rows[r][2]]] :
        rows \in SeqUpTo(RateTimestamps \X (0..MaxCount), MaxDayRows)}

InitRate ==
    /\ pc = "call"
    /\ args \in {[fn |-> "checkinrate", df |-> df] : df \in RateFrames}
    /\ ret = Idle
    /\ NoScript

CallCheckinRate ==
    /\ pc = "call"
    /\ args.fn = "checkinrate"
    /\ Return(checkinrate(args.df))

NextRate == CallCheckinRate

SpecRate == InitRate /\ [][NextRate]_vars

\* The rate of row i is the finite number: the difference of the checked-in
\* counts of rows i-1 and i, divided by the minutes between them
IsDeltaPerMinute(df, rate, i) ==
    LET dc   == df["checkedin"][i] - df["checkedin"][i-1]
        dsec == EpochSeconds(df["CurrentDateTimeUtc"][i])
                - EpochSeconds(df["CurrentDateTimeUtc"][i-1])
    IN  /\ rate[i].kind = "num"
        /\ rate[i].den # 0
        /\ rate[i].num * dsec = 60 * dc * rate[i].den

=============================================================================
